---- MODULE Spec2Model ----
(***************************************************************************)
(* Model of madag::sync (src/thread.hh): the notifiable wake flag, the     *)
(* PolymorphicThread handle, and the pulsers built on them (ClockPulser,   *)
(* NotifiedPulser, DelayedNotifiedPulser, SelfDeletingTimer).              *)
(*                                                                         *)
(* One instance is modelled at a time; `kind` says which class it is.      *)
(* kind = "Flag" is a bare notifiable used by a consumer thread that calls *)
(* wait() and by caller threads that call notify() / try_wait().           *)
(* The thread spawned by start() (or the consumer, for "Flag") is the      *)
(* `pc` thread; the threads that call the public methods are Callers.      *)
(***************************************************************************)
EXTENDS Integers, FiniteSets, Sequences, TLC

\* ------------------------------------------------------------------ bounds
\* number of public method calls (other than start) made on the instance
MaxCalls == 3
\* number of ticks a ClockPulser is followed for (its loop is unbounded)
MaxTicks == 2
\* number of wait() calls the consumer of a bare notifiable makes
MaxWaits == 2
\* number of elements given to a UnionFind
NumElems == 3
\* number of distinct pairs merged in a UnionFind
MaxMerges == 3

\* ------------------------------------------------------------------ names
Kinds == {"Flag", "Clock", "Notified", "Delayed", "Timer"}
NotifiedKinds == {"Notified", "Delayed"}
Callers == {"c1", "c2"}
Loop == "loop"
NoThread == "none"

VARIABLES
    kind,           \* the class of the instance
    pc,             \* position of the spawned thread in run() (or of the consumer)
    alive,          \* the instance has not been deleted
    m_thread,       \* PolymorphicThread::m_thread : "none", "joinable", "joined", "detached"
    m_interrupted,  \* PulserBase::m_interrupted
    m_wake,         \* notifiable::m_wake
    m_mutex,        \* notifiable::m_mutex : the thread that holds it, or NoThread
    cpc,            \* position of each caller thread
    cop,            \* the public method each caller thread is inside
    calls,          \* number of public method calls made so far
    ticks,          \* number of tick() invocations begun
    obs,            \* observations of the run, read by the properties only
    m_mapping,      \* UnionFind::m_mapping : element -> father
    merged          \* the pairs given to UnionFind::merge so far

vars == <<kind, pc, alive, m_thread, m_interrupted, m_wake, m_mutex,
          cpc, cop, calls, ticks, obs, m_mapping, merged>>

\* the state of the UnionFind, and the state of the threads
uf == <<m_mapping, merged>>
sync == <<kind, pc, alive, m_thread, m_interrupted, m_wake, m_mutex,
          cpc, cop, calls, ticks, obs>>

\* positions of the pc thread inside notifiable::wait()
WaitPcs == {"w_lock", "w_test", "w_cvwait", "w_blocked", "w_reacquire", "w_reset"}
\* positions of a caller inside notifiable::notify()
NotifyPcs == {"n_lock", "n_set", "n_signal"}

InWait == pc \in WaitPcs
InNotify(c) == cpc[c] \in NotifyPcs
NotifyInFlight == \E c \in Callers : InNotify(c)
Started == m_thread # "none"

\* ------------------------------------------------------------------ Init
\* variant: the loop body begins with tick() instead of the sleep / wait
RunEntry_TickFirst(k) ==
    IF k \in NotifiedKinds THEN "w_lock" ELSE "call_tick"

\* the first statement of run() for each class
RunEntry(k) ==
    IF k \in NotifiedKinds THEN "w_lock" ELSE "sleep"

Init ==
    /\ kind \in Kinds
    /\ pc = IF kind = "Flag" THEN "idle" ELSE "unstarted"
    /\ alive = TRUE
    /\ m_thread = "none"
    /\ m_interrupted = FALSE
    /\ m_wake = FALSE
    /\ m_mutex = NoThread
    /\ cpc = [c \in Callers |-> "idle"]
    /\ cop = [c \in Callers |-> "none"]
    /\ calls = 0
    /\ ticks = 0
    /\ m_mapping = << >>
    /\ merged = {}
    /\ obs = [sleeps |-> 0, checks |-> 0, waits |-> 0, wakeups |-> 0,
              ticksAtKill |-> -1, seq |-> TRUE, bareTicks |-> -1,
              notifyAfter |-> FALSE, earlyInt |-> FALSE,
              pendingSig |-> 0, coalN |-> 0, retSince |-> 0, uaf |-> FALSE,
              deletes |-> 0,
              burstN |-> 0, burst |-> 0, burstBase |-> 0, late |-> 0,
              delays |-> 0, errors |-> 0, lifeCalls |-> 0,
              ticksDone |-> 0, midTick |-> -1,
              sleepInt |-> -1, sleepIntSleeps |-> 0,
              passes |-> 0, rets |-> 0]

\* ------------------------------------------------------------ notifiable
\* wait(), line 29: std::unique_lock lock(m_mutex)
WaitLock ==
    /\ pc = "w_lock"
    /\ m_mutex = NoThread
    /\ m_mutex' = Loop
    /\ pc' = "w_test"
    /\ UNCHANGED <<uf, kind, alive, m_thread, m_interrupted, m_wake, cpc, cop, calls, ticks, obs>>

\* variant: while (!m_wake && !m_interrupted)
WaitTest_OrInterrupted ==
    /\ pc = "w_test"
    /\ pc' = IF m_wake \/ m_interrupted THEN "w_reset" ELSE "w_cvwait"
    /\ UNCHANGED <<uf, kind, alive, m_thread, m_interrupted, m_wake, m_mutex, cpc, cop, calls, ticks, obs>>

\* wait(), line 30: the test of while (!m_wake)
WaitTest ==
    /\ pc = "w_test"
    /\ pc' = IF m_wake THEN "w_reset" ELSE "w_cvwait"
    /\ UNCHANGED <<uf, kind, alive, m_thread, m_interrupted, m_wake, m_mutex, cpc, cop, calls, ticks, obs>>

\* wait(), line 30: m_condition.wait(lock) releases the mutex and blocks,
\* in one atomic step
WaitBlock ==
    /\ pc = "w_cvwait"
    /\ pc' = "w_blocked"
    /\ m_mutex' = IF m_mutex = Loop THEN NoThread ELSE m_mutex
    /\ UNCHANGED <<uf, kind, alive, m_thread, m_interrupted, m_wake, cpc, cop, calls, ticks, obs>>

\* condition_variable::wait may return without a notification
SpuriousWake ==
    /\ pc = "w_blocked"
    /\ pc' = "w_reacquire"
    /\ UNCHANGED <<uf, kind, alive, m_thread, m_interrupted, m_wake, m_mutex, cpc, cop, calls, ticks, obs>>

\* condition_variable::wait re-locks the mutex before it returns
WaitReacquire ==
    /\ pc = "w_reacquire"
    /\ m_mutex = NoThread
    /\ m_mutex' = Loop
    /\ pc' = "w_test"
    /\ UNCHANGED <<uf, kind, alive, m_thread, m_interrupted, m_wake, cpc, cop, calls, ticks, obs>>

\* variant: wait() returns without m_wake = false
WaitReset_NoReset ==
    /\ pc = "w_reset"
    /\ m_wake' = m_wake
    /\ m_mutex' = IF m_mutex = Loop THEN NoThread ELSE m_mutex
    /\ pc' = IF kind = "Flag" THEN "idle" ELSE "check"
    /\ obs' = [obs EXCEPT !.pendingSig = 0,
                          !.rets = @ + 1,
                          !.retSince = IF obs.coalN > 0 THEN @ + 1 ELSE @]
    /\ UNCHANGED <<uf, kind, alive, m_thread, m_interrupted, cpc, cop, calls, ticks>>

\* wait(), lines 31-32: m_wake = false; the lock is released on return
WaitReset ==
    /\ pc = "w_reset"
    /\ m_wake' = FALSE
    /\ m_mutex' = IF m_mutex = Loop THEN NoThread ELSE m_mutex
    /\ pc' = IF kind = "Flag" THEN "idle" ELSE "check"
    /\ obs' = [obs EXCEPT !.pendingSig = 0,
                          !.rets = @ + 1,
                          !.retSince = IF obs.coalN > 0 THEN @ + 1 ELSE @]
    /\ UNCHANGED <<uf, kind, alive, m_thread, m_interrupted, cpc, cop, calls, ticks>>

\* variant: notify() does not take the mutex
NotifyLock_NoLock(c) ==
    /\ cpc[c] = "n_lock"
    /\ cpc' = [cpc EXCEPT ![c] = "n_set"]
    /\ UNCHANGED <<uf, kind, pc, alive, m_thread, m_interrupted, m_wake, m_mutex, cop, calls, ticks, obs>>

\* notify(), line 23: std::unique_lock lock(m_mutex)
NotifyLock(c) ==
    /\ cpc[c] = "n_lock"
    /\ m_mutex = NoThread
    /\ m_mutex' = c
    /\ cpc' = [cpc EXCEPT ![c] = "n_set"]
    /\ UNCHANGED <<uf, kind, pc, alive, m_thread, m_interrupted, m_wake, cop, calls, ticks, obs>>

\* variant: notify() does not set m_wake
NotifySet_NoSet(c) ==
    /\ cpc[c] = "n_set"
    /\ cpc' = [cpc EXCEPT ![c] = "n_signal"]
    /\ UNCHANGED <<uf, kind, pc, alive, m_thread, m_interrupted, m_wake, m_mutex, cop, calls, ticks, obs>>

\* notify(), line 24: m_wake = true
NotifySet(c) ==
    /\ cpc[c] = "n_set"
    /\ m_wake' = TRUE
    /\ cpc' = [cpc EXCEPT ![c] = "n_signal"]
    /\ UNCHANGED <<uf, kind, pc, alive, m_thread, m_interrupted, m_mutex, cop, calls, ticks, obs>>

\* what the return of notify() adds to the observations: a completed
\* signal; the tick count at the first return of kill(); for a
\* DelayedNotifiedPulser, a wakeup() that arrived between the start of a
\* tick and the end of the delay after it (burstN), or after such a window
\* with arrivals has closed (late)
NotifyObs(c) ==
    LET window == kind = "Delayed" /\ cop[c] = "wakeup" /\ pc \in {"in_tick", "delay"}
        after  == kind = "Delayed" /\ cop[c] = "wakeup" /\ obs.burst >= 1
    IN  [obs EXCEPT !.pendingSig = @ + 1,
                    !.ticksAtKill = IF cop[c] = "kill" /\ @ < 0 THEN ticks ELSE @,
                    !.burstN = IF window /\ ~after THEN @ + 1 ELSE @,
                    !.late = IF after THEN @ + 1 ELSE @]

\* variant: notify() without m_condition.notify_one()
NotifyOne_NoSignal(c) ==
    /\ cpc[c] = "n_signal"
    /\ m_mutex' = IF m_mutex = c THEN NoThread ELSE m_mutex
    /\ cpc' = [cpc EXCEPT ![c] = "idle"]
    /\ cop' = [cop EXCEPT ![c] = "none"]
    /\ obs' = NotifyObs(c)
    /\ UNCHANGED <<uf, kind, pc, alive, m_thread, m_interrupted, m_wake, calls, ticks>>

\* notify(), lines 25-26: m_condition.notify_one(); the lock is released on
\* return, and with it the enclosing wakeup() / kill() returns
NotifyOne(c) ==
    /\ cpc[c] = "n_signal"
    /\ pc' = IF pc = "w_blocked" THEN "w_reacquire" ELSE pc
    /\ m_mutex' = IF m_mutex = c THEN NoThread ELSE m_mutex
    /\ cpc' = [cpc EXCEPT ![c] = "idle"]
    /\ cop' = [cop EXCEPT ![c] = "none"]
    /\ obs' = NotifyObs(c)
    /\ UNCHANGED <<uf, kind, alive, m_thread, m_interrupted, m_wake, calls, ticks>>

\* try_wait(), line 35: std::unique_lock lock(m_mutex)
TryWaitLock(c) ==
    /\ cpc[c] = "t_lock"
    /\ m_mutex = NoThread
    /\ m_mutex' = c
    /\ cpc' = [cpc EXCEPT ![c] = "t_body"]
    /\ UNCHANGED <<uf, kind, pc, alive, m_thread, m_interrupted, m_wake, cop, calls, ticks, obs>>

\* try_wait(), lines 36-39: result = m_wake; m_wake = false; return result
TryWaitBody(c) ==
    /\ cpc[c] = "t_body"
    /\ m_wake' = FALSE
    /\ m_mutex' = NoThread
    /\ cpc' = [cpc EXCEPT ![c] = "idle"]
    /\ cop' = [cop EXCEPT ![c] = "none"]
    /\ obs' = [obs EXCEPT !.pendingSig = 0]
    /\ UNCHANGED <<uf, kind, pc, alive, m_thread, m_interrupted, calls, ticks>>

\* ------------------------------------------------- callers of notifiable
Idle(c) == cpc[c] = "idle"

\* a consumer thread calls wait() on a bare notifiable
ConsumerWait ==
    /\ kind = "Flag"
    /\ pc = "idle"
    /\ obs.waits < MaxWaits
    /\ pc' = "w_lock"
    /\ obs' = [obs EXCEPT !.waits = @ + 1,
                          !.retSince = IF obs.coalN = 0 THEN 0 ELSE @,
                          !.coalN = IF @ = 0 /\ \A c \in Callers : Idle(c)
                                      THEN obs.pendingSig ELSE @]
    /\ UNCHANGED <<uf, kind, alive, m_thread, m_interrupted, m_wake, m_mutex, cpc, cop, calls, ticks>>

\* a caller thread calls try_wait() on a bare notifiable
CallTryWait(c) ==
    /\ kind = "Flag"
    /\ Idle(c)
    /\ calls < MaxCalls
    /\ calls' = calls + 1
    /\ cpc' = [cpc EXCEPT ![c] = "t_lock"]
    /\ cop' = [cop EXCEPT ![c] = "try_wait"]
    /\ obs' = [obs EXCEPT !.coalN = 0]
    /\ UNCHANGED <<uf, kind, pc, alive, m_thread, m_interrupted, m_wake, m_mutex, ticks>>

\* ------------------------------------------------------ PolymorphicThread
\* active(), line 61: m_thread.joinable()
active == m_thread = "joinable"

\* no other thread is inside start() or join() on the same handle
HandleFree == \A d \in Callers : cop[d] \notin {"join", "start"}

\* start(), line 57: m_thread = std::thread(&run, this); for a
\* SelfDeletingTimer, start() (lines 277-281) goes on to detach()
CallStart(c) ==
    /\ kind # "Flag"
    /\ Idle(c)
    /\ m_thread = "none"
    /\ HandleFree
    /\ m_thread' = "joinable"
    /\ pc' = RunEntry(kind)
    /\ cpc' = [cpc EXCEPT ![c] = IF kind = "Timer" THEN "detach" ELSE "idle"]
    /\ cop' = [cop EXCEPT ![c] = IF kind = "Timer" THEN "start" ELSE "none"]
    /\ UNCHANGED <<uf, kind, alive, m_interrupted, m_wake, m_mutex, calls, ticks, obs>>

\* SelfDeletingTimer::start(), line 280: PolymorphicThread::detach()
\* (m_thread.detach(), line 60)
StartDetach(c) ==
    /\ cpc[c] = "detach"
    /\ m_thread' = "detached"
    /\ cpc' = [cpc EXCEPT ![c] = "idle"]
    /\ cop' = [cop EXCEPT ![c] = "none"]
    /\ UNCHANGED <<uf, kind, pc, alive, m_interrupted, m_wake, m_mutex, calls, ticks, obs>>

\* variant: join() on a handle that is not joinable returns silently
CallJoin_Silent(c) ==
    /\ kind \notin {"Flag", "Timer"}
    /\ Idle(c)
    /\ calls < MaxCalls
    /\ HandleFree
    /\ calls' = calls + 1
    /\ IF active
         THEN /\ cpc' = [cpc EXCEPT ![c] = "joining"]
              /\ cop' = [cop EXCEPT ![c] = "join"]
         ELSE UNCHANGED <<cpc, cop>>
    /\ obs' = [obs EXCEPT !.lifeCalls = @ + 1]
    /\ UNCHANGED <<uf, kind, pc, alive, m_thread, m_interrupted, m_wake, m_mutex, ticks>>

\* join(), line 59: m_thread.join() is entered on a joinable handle; on a
\* handle that is not joinable it throws std::system_error at once
CallJoin(c) ==
    /\ kind \notin {"Flag", "Timer"}
    /\ Idle(c)
    /\ calls < MaxCalls
    /\ HandleFree
    /\ calls' = calls + 1
    /\ IF active
         THEN /\ cpc' = [cpc EXCEPT ![c] = "joining"]
              /\ cop' = [cop EXCEPT ![c] = "join"]
              /\ obs' = [obs EXCEPT !.lifeCalls = @ + 1]
         ELSE /\ UNCHANGED <<cpc, cop>>
              /\ obs' = [obs EXCEPT !.lifeCalls = @ + 1, !.errors = @ + 1]
    /\ UNCHANGED <<uf, kind, pc, alive, m_thread, m_interrupted, m_wake, m_mutex, ticks>>

\* detach(), line 60: m_thread.detach() releases a joinable handle; on a
\* handle that is not joinable it throws std::system_error
CallDetach(c) ==
    /\ kind \notin {"Flag", "Timer"}
    /\ Idle(c)
    /\ calls < MaxCalls
    /\ HandleFree
    /\ calls' = calls + 1
    /\ IF active
         THEN /\ m_thread' = "detached"
              /\ obs' = [obs EXCEPT !.lifeCalls = @ + 1]
         ELSE /\ UNCHANGED m_thread
              /\ obs' = [obs EXCEPT !.lifeCalls = @ + 1, !.errors = @ + 1]
    /\ UNCHANGED <<uf, kind, pc, alive, m_interrupted, m_wake, m_mutex, cpc, cop, ticks>>

\* variant: join() returns without waiting for run() to return
JoinReturn_Early(c) ==
    /\ cpc[c] = "joining"
    /\ m_thread' = "joined"
    /\ cpc' = [cpc EXCEPT ![c] = "idle"]
    /\ cop' = [cop EXCEPT ![c] = "none"]
    /\ UNCHANGED <<uf, kind, pc, alive, m_interrupted, m_wake, m_mutex, calls, ticks, obs>>

\* join(), line 59: m_thread.join() returns once run() has returned
JoinReturn(c) ==
    /\ cpc[c] = "joining"
    /\ pc = "done"
    /\ m_thread' = "joined"
    /\ cpc' = [cpc EXCEPT ![c] = "idle"]
    /\ cop' = [cop EXCEPT ![c] = "none"]
    /\ UNCHANGED <<uf, kind, pc, alive, m_interrupted, m_wake, m_mutex, calls, ticks, obs>>

\* ------------------------------------------------------------ PulserBase
\* the loop is inside wait() with nothing pending and nobody notifying
QuietWait == Started /\ InWait /\ ~m_wake /\ ~NotifyInFlight

\* variant: interrupt() is refused once the instance has been deleted
CallInterrupt_Guarded(c) ==
    /\ kind # "Flag"
    /\ Idle(c)
    /\ calls < MaxCalls
    /\ alive
    /\ calls' = calls + 1
    /\ m_interrupted' = TRUE
    /\ obs' = [obs EXCEPT !.seq = FALSE,
                          !.earlyInt = @ \/ (Started /\ pc = "sleep" /\ obs.sleeps = 0),
                          !.bareTicks = IF @ < 0 /\ QuietWait
                                          THEN ticks ELSE @,
                          !.midTick = IF @ < 0 /\ pc = "in_tick" THEN ticks ELSE @,
                          !.sleepInt = IF @ < 0 /\ Started /\ pc = "sleep" THEN ticks ELSE @,
                          !.sleepIntSleeps = IF obs.sleepInt < 0 /\ Started /\ pc = "sleep"
                                               THEN obs.sleeps ELSE @]
    /\ UNCHANGED <<uf, kind, pc, alive, m_thread, m_wake, m_mutex, cpc, cop, ticks>>

\* variant: interrupt() stops a tick that is executing
CallInterrupt_Aborts(c) ==
    /\ kind # "Flag"
    /\ Idle(c)
    /\ calls < MaxCalls
    /\ calls' = calls + 1
    /\ m_interrupted' = TRUE
    /\ obs' = [obs EXCEPT !.seq = FALSE,
                          !.uaf = @ \/ ~alive,
                          !.earlyInt = @ \/ (Started /\ pc = "sleep" /\ obs.sleeps = 0),
                          !.bareTicks = IF @ < 0 /\ QuietWait
                                          THEN ticks ELSE @,
                          !.midTick = IF @ < 0 /\ pc = "in_tick" THEN ticks ELSE @,
                          !.sleepInt = IF @ < 0 /\ Started /\ pc = "sleep" THEN ticks ELSE @,
                          !.sleepIntSleeps = IF obs.sleepInt < 0 /\ Started /\ pc = "sleep"
                                               THEN obs.sleeps ELSE @]
    /\ pc' = IF pc = "in_tick" THEN "done" ELSE pc
    /\ UNCHANGED <<uf, kind, alive, m_thread, m_wake, m_mutex, cpc, cop, ticks>>

\* interrupt(), line 81: m_interrupted = true
CallInterrupt(c) ==
    /\ kind # "Flag"
    /\ Idle(c)
    /\ calls < MaxCalls
    /\ calls' = calls + 1
    /\ m_interrupted' = TRUE
    /\ obs' = [obs EXCEPT !.seq = FALSE,
                          !.uaf = @ \/ ~alive,
                          !.earlyInt = @ \/ (Started /\ pc = "sleep" /\ obs.sleeps = 0),
                          !.bareTicks = IF @ < 0 /\ QuietWait
                                          THEN ticks ELSE @,
                          !.midTick = IF @ < 0 /\ pc = "in_tick" THEN ticks ELSE @,
                          !.sleepInt = IF @ < 0 /\ Started /\ pc = "sleep" THEN ticks ELSE @,
                          !.sleepIntSleeps = IF obs.sleepInt < 0 /\ Started /\ pc = "sleep"
                                               THEN obs.sleeps ELSE @]
    /\ UNCHANGED <<uf, kind, pc, alive, m_thread, m_wake, m_mutex, cpc, cop, ticks>>

\* ---------------------------------------------------------- NotifiedPulser
\* wakeup(), lines 208-211 (or notify() on a bare notifiable) is entered
CallWakeup(c) ==
    /\ kind \in NotifiedKinds \cup {"Flag"}
    /\ Idle(c)
    /\ calls < MaxCalls
    /\ calls' = calls + 1
    /\ cpc' = [cpc EXCEPT ![c] = "n_lock"]
    /\ cop' = [cop EXCEPT ![c] = "wakeup"]
    /\ obs' = [obs EXCEPT !.wakeups = @ + 1,
                          !.seq = @ /\ QuietWait,
                          !.coalN = 0,
                          !.notifyAfter = @ \/ obs.bareTicks >= 0]
    /\ UNCHANGED <<uf, kind, pc, alive, m_thread, m_interrupted, m_wake, m_mutex, ticks>>

\* variant: kill() without interrupt()
CallKill_NoInterrupt(c) ==
    /\ kind \in NotifiedKinds
    /\ Idle(c)
    /\ calls < MaxCalls
    /\ calls' = calls + 1
    /\ cpc' = [cpc EXCEPT ![c] = "n_lock"]
    /\ cop' = [cop EXCEPT ![c] = "kill"]
    /\ obs' = [obs EXCEPT !.seq = FALSE,
                          !.notifyAfter = @ \/ obs.bareTicks >= 0,
                          !.midTick = IF @ < 0 /\ pc = "in_tick" THEN ticks ELSE @]
    /\ UNCHANGED <<uf, kind, pc, alive, m_thread, m_interrupted, m_wake, m_mutex, ticks>>

\* kill(), lines 212-216: interrupt(); then wakeup() is entered
CallKill(c) ==
    /\ kind \in NotifiedKinds
    /\ Idle(c)
    /\ calls < MaxCalls
    /\ calls' = calls + 1
    /\ m_interrupted' = TRUE
    /\ cpc' = [cpc EXCEPT ![c] = "n_lock"]
    /\ cop' = [cop EXCEPT ![c] = "kill"]
    /\ obs' = [obs EXCEPT !.seq = FALSE,
                          !.notifyAfter = @ \/ obs.bareTicks >= 0,
                          !.midTick = IF @ < 0 /\ pc = "in_tick" THEN ticks ELSE @]
    /\ UNCHANGED <<uf, kind, pc, alive, m_thread, m_wake, m_mutex, ticks>>

\* ------------------------------------------------------------------ run()
\* variant: the flag is not looked at after the sleep
SleepEnd_NoCheck ==
    /\ pc = "sleep"
    /\ pc' = "call_tick"
    /\ obs' = [obs EXCEPT !.sleeps = @ + 1]
    /\ UNCHANGED <<uf, kind, alive, m_thread, m_interrupted, m_wake, m_mutex, cpc, cop, calls, ticks>>

\* std::this_thread::sleep_for(m_interval) returns (lines 110, 268)
SleepEnd ==
    /\ pc = "sleep"
    /\ pc' = "check"
    /\ obs' = [obs EXCEPT !.sleeps = @ + 1]
    /\ UNCHANGED <<uf, kind, alive, m_thread, m_interrupted, m_wake, m_mutex, cpc, cop, calls, ticks>>

\* variant: the loop does not look at m_interrupted
Check_IgnoreFlag ==
    /\ pc = "check"
    /\ pc' = "call_tick"
    /\ obs' = [obs EXCEPT !.checks = @ + 1, !.passes = @ + 1]
    /\ UNCHANGED <<uf, kind, alive, m_thread, m_interrupted, m_wake, m_mutex, cpc, cop, calls, ticks>>

\* variant: an interrupted timer leaves run() like the pulsers do, by break
Check_TimerBreaks ==
    /\ pc = "check"
    /\ pc' = IF m_interrupted THEN "done" ELSE "call_tick"
    /\ obs' = [obs EXCEPT !.checks = @ + 1,
                          !.passes = IF m_interrupted THEN @ ELSE @ + 1]
    /\ UNCHANGED <<uf, kind, alive, m_thread, m_interrupted, m_wake, m_mutex, cpc, cop, calls, ticks>>

\* if (m_interrupted) { break; }  (lines 111, 203, 240);
\* if (!m_interrupted) tick(); for the timer (line 269)
Check ==
    /\ pc = "check"
    /\ pc' = IF m_interrupted
               THEN (IF kind = "Timer" THEN "delete" ELSE "done")
               ELSE "call_tick"
    /\ obs' = [obs EXCEPT !.checks = @ + 1,
                          !.passes = IF m_interrupted THEN @ ELSE @ + 1]
    /\ UNCHANGED <<uf, kind, alive, m_thread, m_interrupted, m_wake, m_mutex, cpc, cop, calls, ticks>>

\* tick() is invoked (lines 112, 204, 241, 269)
TickBegin ==
    /\ pc = "call_tick"
    /\ kind = "Clock" => ticks < MaxTicks
    /\ ticks' = ticks + 1
    /\ pc' = "in_tick"
    /\ obs' = [obs EXCEPT !.burstN = 0]
    /\ UNCHANGED <<uf, kind, alive, m_thread, m_interrupted, m_wake, m_mutex, cpc, cop, calls>>

\* variant: the timer loops like a ClockPulser instead of firing once
TickEnd_TimerLoops ==
    /\ pc = "in_tick"
    /\ pc' = CASE kind = "Clock"    -> "sleep"
               [] kind = "Notified" -> "w_lock"
               [] kind = "Delayed"  -> "delay"
               [] kind = "Timer"    -> "check"
    /\ obs' = [obs EXCEPT !.ticksDone = @ + 1]
    /\ UNCHANGED <<uf, kind, alive, m_thread, m_interrupted, m_wake, m_mutex, cpc, cop, calls, ticks>>

\* variant: DelayedNotifiedPulser::run without the sleep_for(m_delay)
TickEnd_NoDelay ==
    /\ pc = "in_tick"
    /\ pc' = CASE kind = "Clock"    -> "sleep"
               [] kind = "Notified" -> "w_lock"
               [] kind = "Delayed"  -> "w_lock"
               [] kind = "Timer"    -> "delete"
    /\ obs' = [obs EXCEPT !.ticksDone = @ + 1]
    /\ UNCHANGED <<uf, kind, alive, m_thread, m_interrupted, m_wake, m_mutex, cpc, cop, calls, ticks>>

\* tick() returns, and run() goes on with its next statement
TickEnd ==
    /\ pc = "in_tick"
    /\ pc' = CASE kind = "Clock"    -> "sleep"
               [] kind = "Notified" -> "w_lock"
               [] kind = "Delayed"  -> "delay"
               [] kind = "Timer"    -> "delete"
    /\ obs' = [obs EXCEPT !.ticksDone = @ + 1]
    /\ UNCHANGED <<uf, kind, alive, m_thread, m_interrupted, m_wake, m_mutex, cpc, cop, calls, ticks>>

\* DelayedNotifiedPulser::run, line 242: sleep_for(m_delay) returns
DelayEnd ==
    /\ pc = "delay"
    /\ pc' = "w_lock"
    /\ obs' = IF obs.burst = 0 /\ obs.burstN >= 1
                THEN [obs EXCEPT !.delays = @ + 1, !.burst = obs.burstN,
                                 !.burstBase = ticks, !.burstN = 0]
                ELSE [obs EXCEPT !.delays = @ + 1, !.burstN = 0]
    /\ UNCHANGED <<uf, kind, alive, m_thread, m_interrupted, m_wake, m_mutex, cpc, cop, calls, ticks>>

\* SelfDeletingTimer::run, line 270: delete this.  The destructor destroys
\* m_thread (line 67): on a handle that is still joinable ~std::thread calls
\* std::terminate, which ends the process and every thread in it
Delete ==
    /\ pc = "delete"
    /\ alive' = FALSE
    /\ IF m_thread = "joinable"
         THEN /\ pc' = "terminated"
              /\ cpc' = [c \in Callers |-> "terminated"]
         ELSE /\ pc' = "done"
              /\ cpc' = cpc
    /\ obs' = [obs EXCEPT !.deletes = @ + 1]
    /\ UNCHANGED <<uf, kind, m_thread, m_interrupted, m_wake, m_mutex, cop, calls, ticks>>

\* ------------------------------------------------------------------ Next
LoopStep ==
    \/ WaitLock \/ WaitTest \/ WaitBlock \/ WaitReacquire \/ WaitReset
    \/ SleepEnd \/ Check \/ TickBegin \/ TickEnd \/ DelayEnd \/ Delete

CallerStep(c) ==
    \/ NotifyLock(c) \/ NotifySet(c) \/ NotifyOne(c)
    \/ TryWaitLock(c) \/ TryWaitBody(c)
    \/ StartDetach(c) \/ JoinReturn(c)

Call(c) ==
    \/ CallStart(c) \/ CallJoin(c) \/ CallDetach(c) \/ CallInterrupt(c)
    \/ CallWakeup(c) \/ CallKill(c) \/ CallTryWait(c)

Next ==
    \/ LoopStep
    \/ SpuriousWake
    \/ ConsumerWait
    \/ \E c \in Callers : CallerStep(c)
    \/ \E c \in Callers : Call(c)

Spec == Init /\ [][Next]_vars

\* Every thread that can take a step eventually takes one, and a thread
\* waiting for the mutex eventually gets it.  Nobody is obliged to make a
\* call, and a spurious wake-up is never obliged to happen.
Fairness ==
    /\ WF_vars(LoopStep)
    /\ \A c \in Callers : WF_vars(CallerStep(c))
    /\ \A c \in Callers : SF_vars(NotifyLock(c)) /\ SF_vars(TryWaitLock(c))

FairSpec == Spec /\ Fairness

TypeOK ==
    /\ kind \in Kinds
    /\ pc \in WaitPcs \cup {"idle", "unstarted", "sleep", "check", "call_tick",
                            "in_tick", "delay", "delete", "done", "terminated"}
    /\ alive \in BOOLEAN
    /\ m_thread \in {"none", "joinable", "joined", "detached"}
    /\ m_interrupted \in BOOLEAN
    /\ m_wake \in BOOLEAN
    /\ m_mutex \in Callers \cup {Loop, NoThread}
    /\ cpc \in [Callers -> NotifyPcs \cup {"idle", "t_lock", "t_body", "detach", "joining",
                                           "terminated"}]
    /\ calls \in 0..MaxCalls
    /\ ticks \in 0..(MaxCalls + MaxTicks)

\* ================================================================ UnionFind
Elems == 1..NumElems

\* find(), src/unionfind.hh lines 60-72: the root of a, and the mapping after
\* the fathers on the way have been set to it
RECURSIVE find(_, _)
find(m, a) ==
    IF a \in DOMAIN m
      THEN LET r == find(m, m[a])
           IN  [root |-> r.root, map |-> [r.map EXCEPT ![a] = r.root]]
      ELSE [root |-> a, map |-> m]

\* container::emplace: inserts k -> v unless k is already a key
emplace(m, k, v) ==
    IF k \in DOMAIN m THEN m ELSE m @@ (k :> v)

\* variant: merge() links b itself, not the root of b
merge_LinkArg(m, a, b) ==
    LET fa == find(m, a)
        fb == find(fa.map, b)
        ra == IF a \in DOMAIN m THEN fb.map[a] ELSE a
        rb == fb.root
    IN  IF ra # rb THEN emplace(fb.map, b, ra) ELSE fb.map

\* merge(), src/unionfind.hh lines 77-86; ra is a reference (to the slot of
\* a, or to a) that is read after find(b) has run
merge(m, a, b) ==
    LET fa == find(m, a)
        fb == find(fa.map, b)
        ra == IF a \in DOMAIN m THEN fb.map[a] ELSE a
        rb == fb.root
    IN  IF ra # rb THEN emplace(fb.map, rb, ra) ELSE fb.map

\* a call of merge(a, b)
Merge(a, b) ==
    /\ Cardinality(merged) < MaxMerges \/ <<a, b>> \in merged
    /\ m_mapping' = merge(m_mapping, a, b)
    /\ merged' = merged \cup {<<a, b>>}
    /\ UNCHANGED sync

\* a call of find(a)
Find(a) ==
    /\ m_mapping' = find(m_mapping, a).map
    /\ UNCHANGED <<merged, sync>>

InitUF == kind = "Flag" /\ Init

NextUF ==
    \/ \E a, b \in Elems : Merge(a, b)
    \/ \E a \in Elems : Find(a)

SpecUF == InitUF /\ [][NextUF]_vars

\* ================================================================ claims

KillReturned == obs.ticksAtKill >= 0
KillCalled == KillReturned \/ \E c \in Callers : cop[c] = "kill"

\* C1 (as stated): once a call to kill() has returned, no tick invocation
\* begins afterwards.
C1_NoTickAfterKill ==
    (kind \in NotifiedKinds /\ KillReturned) => ticks = obs.ticksAtKill

\* C1 (amended): once kill() has returned, every check of the cancellation
\* flag reads true, so the only tick that can still begin is the one whose
\* flag check had already read false: at most one tick begins after kill()
\* has returned.
C1_AtMostOneTickAfterKill ==
    (kind \in NotifiedKinds /\ KillReturned) =>
        /\ ticks <= obs.ticksAtKill + 1
        /\ pc = "check" => m_interrupted
        /\ pc = "call_tick" => ticks = obs.ticksAtKill

C1_Witness ==
    /\ kind \in NotifiedKinds
    /\ KillReturned
    /\ ticks = obs.ticksAtKill + 1
    /\ pc = "done"

\* C2: after kill() is called on a started NotifiedPulser or
\* DelayedNotifiedPulser, the loop thread eventually exits, and a join()
\* that is waiting for it returns.
C2_KillThenExit ==
    /\ (kind \in NotifiedKinds /\ Started /\ KillCalled) ~> (pc = "done")
    /\ \A c \in Callers :
          (kind \in NotifiedKinds /\ KillCalled /\ cpc[c] = "joining")
              ~> (m_thread = "joined")

C2_Witness ==
    /\ kind \in NotifiedKinds
    /\ KillReturned
    /\ ticks >= 1
    /\ m_thread = "joined"

\* C3: N >= 1 signal() calls that all completed before a wait() make that
\* wait() return once and leave the flag unsignaled: until it returns the
\* flag is pending, after it has returned the flag is clear and no later
\* wait() returns unless a further signal() is made.
C3_Coalesce ==
    (kind = "Flag" /\ obs.coalN >= 1) =>
        /\ obs.retSince <= 1
        /\ obs.retSince = 0 => m_wake
        /\ obs.retSince = 1 => ~m_wake

C3_Witness ==
    /\ kind = "Flag"
    /\ obs.coalN >= 2
    /\ obs.retSince = 1
    /\ obs.waits = 2
    /\ pc = "w_blocked"

\* C4: with signal() as the only call made on the flag, a wait() that has a
\* signal pending or in flight eventually returns (no missed wake-up).
C4_NoMissedWakeup ==
    (kind = "Flag" /\ InWait /\ (m_wake \/ NotifyInFlight))
        ~> (pc = "idle" \/ calls # obs.wakeups)

C4_Witness ==
    /\ kind = "Flag"
    /\ obs.waits = 1 /\ obs.wakeups = 1 /\ calls = 1
    /\ pc = "idle"
    /\ ~m_wake

\* C5: K wakeup() calls on a started, never interrupted NotifiedPulser, each
\* made while the loop is back in wait() with nothing pending, produce
\* exactly K ticks: never more ticks than wakeups, and as many once the loop
\* is again waiting with nothing pending.
C5_OneTickPerWakeup ==
    (kind = "Notified" /\ obs.seq) =>
        /\ ticks <= obs.wakeups
        /\ QuietWait => ticks = obs.wakeups

C5_Witness ==
    /\ kind = "Notified"
    /\ obs.seq
    /\ QuietWait
    /\ ticks >= 2
    /\ pc = "w_blocked"

BareInterrupt == kind = "Notified" /\ obs.bareTicks >= 0

\* C6: after a bare interrupt() on a NotifiedPulser whose loop is in wait()
\* with nothing pending, the loop stays in wait() as long as no wakeup() or
\* kill() is called; it never ticks again; and once a wakeup() or kill() is
\* called it exits.
C6_BareInterrupt ==
    /\ [](BareInterrupt /\ ~obs.notifyAfter => InWait /\ m_interrupted)
    /\ [](BareInterrupt => ticks = obs.bareTicks)
    /\ (BareInterrupt /\ obs.notifyAfter) ~> (pc = "done")

C6_Witness ==
    /\ BareInterrupt
    /\ obs.notifyAfter
    /\ pc = "done"

EarlyClock == kind = "Clock" /\ obs.earlyInt

\* C7: a ClockPulser interrupted before its first sleep ends makes one sleep
\* and one check of the flag, never ticks, and its loop terminates.
C7_ClockEarlyInterrupt ==
    /\ [](EarlyClock => /\ ticks = 0
                        /\ obs.sleeps <= 1
                        /\ obs.checks <= 1
                        /\ pc = "done" => obs.sleeps = 1 /\ obs.checks = 1)
    /\ EarlyClock ~> (pc = "done")

C7_Witness ==
    /\ EarlyClock
    /\ pc = "done"

\* C8: once join() has returned, run() has returned and the tick count never
\* changes again.
C8_NoTickAfterJoin ==
    [][m_thread = "joined" => (pc = "done" /\ pc' = "done" /\ ticks' = ticks)]_vars

C8_Witness ==
    /\ m_thread = "joined"
    /\ ticks >= 1
    /\ calls = MaxCalls

\* C9: a SelfDeletingTimer interrupted before its delay sleep ends never
\* invokes the callback.
C9_TimerInterrupted ==
    (kind = "Timer" /\ obs.earlyInt) =>
        ticks = 0 /\ pc \notin {"call_tick", "in_tick"}

C9_Witness ==
    /\ kind = "Timer"
    /\ obs.earlyInt
    /\ pc = "done"

\* C10: a started SelfDeletingTimer on which interrupt() is never called
\* eventually invokes the callback; in every run the callback is invoked at
\* most once and only after the delay sleep has completed.
C10_TimerFiresOnce ==
    /\ [](kind = "Timer" => ticks <= 1 /\ (ticks = 1 => obs.sleeps = 1))
    /\ (kind = "Timer" /\ Started) ~> (ticks = 1 \/ m_interrupted)

C10_Witness ==
    /\ kind = "Timer"
    /\ ~m_interrupted
    /\ ticks = 1
    /\ pc = "done"


\* C11: a started SelfDeletingTimer is eventually deleted; it is deleted at
\* most once, only by the last step of run(), after the callback (if any)
\* has returned, whether the callback fired or was suppressed.
C11_TimerDeletesItself ==
    /\ [](kind = "Timer" => /\ obs.deletes <= 1
                            /\ alive <=> obs.deletes = 0
                            /\ alive <=> pc \notin {"done", "terminated"}
                            /\ ticks = obs.ticksDone \/ alive)
    /\ (kind = "Timer" /\ Started) ~> ~alive

C11_Witness ==
    /\ kind = "Timer"
    /\ ~alive
    /\ m_interrupted
    /\ ticks = 0
    /\ obs.deletes = 1
    /\ pc = "done"

\* C12: nothing prevents interrupt() on a SelfDeletingTimer that has deleted
\* itself: whenever the instance is gone, a caller that is free to make a
\* call can still execute interrupt() on it.
C12_InterruptAfterDelete ==
    \A c \in Callers :
        (kind = "Timer" /\ ~alive /\ Idle(c) /\ calls < MaxCalls)
            => ENABLED CallInterrupt(c)

C12_Witness ==
    /\ kind = "Timer"
    /\ ~alive
    /\ obs.uaf


BurstSeen == kind = "Delayed" /\ obs.burst >= 1

\* C13: the wakeup() calls (one or more) that arrived between the start of
\* a tick of a DelayedNotifiedPulser and the end of the delay after it cause
\* at most one further tick, whatever their number: later ticks need later
\* wakeups; and exactly one once the loop waits again with nothing pending,
\* if it was not interrupted and no later wakeup arrived.
C13_BurstCoalesces ==
    BurstSeen =>
        /\ ticks <= obs.burstBase + 1 + obs.late
        /\ (QuietWait /\ ~m_interrupted /\ obs.late = 0) => ticks = obs.burstBase + 1

C13_Witness ==
    /\ kind = "Delayed"
    /\ obs.burst >= 2
    /\ obs.late = 0
    /\ ticks = obs.burstBase + 1
    /\ pc = "w_blocked"
    /\ ~m_interrupted

\* C14: every tick of a DelayedNotifiedPulser but the first begins only after
\* the sleep of m_delay that followed the previous tick has completed: as
\* many delays have completed as ticks have returned.
C14_DelayBetweenTicks ==
    kind = "Delayed" =>
        /\ pc = "in_tick" => obs.delays = ticks - 1
        /\ pc = "delay" => obs.delays = ticks - 1
        /\ pc \notin {"in_tick", "delay"} => obs.delays = ticks

C14_Witness ==
    /\ kind = "Delayed"
    /\ ticks >= 2
    /\ pc = "in_tick"
    /\ obs.delays = 1


\* C15: a call of join() or detach() succeeds exactly when active() is true,
\* that is on a started handle neither joined nor detached; otherwise it
\* ends in an error and leaves the handle as it was; and the handle only
\* ever leaves the started state from a state where active() is true.
C15_Lifecycle ==
    [][ /\ obs.lifeCalls' # obs.lifeCalls =>
             IF active
               THEN /\ obs.errors' = obs.errors
                    /\ m_thread' = "detached" \/ \E c \in Callers : cpc'[c] = "joining"
               ELSE /\ obs.errors' = obs.errors + 1
                    /\ m_thread' = m_thread
                    /\ cpc' = cpc
        /\ (m_thread' # m_thread /\ m_thread # "none") =>
             (active /\ m_thread' \in {"joined", "detached"})
      ]_vars

C15_Witness ==
    /\ m_thread = "joined"
    /\ obs.errors >= 1
    /\ obs.lifeCalls >= 2


\* C16: at most one tick of an instance is in progress at a time, a tick in
\* progress ends only by returning, and an interrupt() or kill() made while
\* a tick executes lets it return and only prevents later ticks.
C16_TicksSequential ==
    kind # "Flag" =>
        /\ ticks - obs.ticksDone \in {0, 1}
        /\ pc = "in_tick" <=> ticks = obs.ticksDone + 1
        /\ obs.midTick >= 0 => ticks = obs.midTick

C16_Witness ==
    /\ obs.midTick >= 1
    /\ obs.ticksDone = obs.midTick
    /\ pc = "done"

SleepInterrupted == kind = "Clock" /\ obs.sleepInt >= 0

\* C17: when interrupt() completes while a ClockPulser is inside a sleep,
\* the loop finishes that sleep, checks the flag and exits: no tick begins
\* afterwards, no further sleep is made, and the loop terminates.
C17_InterruptDuringSleep ==
    /\ [](SleepInterrupted =>
            /\ ticks = obs.sleepInt
            /\ pc \in {"sleep", "check", "done"}
            /\ pc = "sleep" => obs.sleeps = obs.sleepIntSleeps
            /\ pc # "sleep" => obs.sleeps = obs.sleepIntSleeps + 1)
    /\ SleepInterrupted ~> (pc = "done")

C17_Witness ==
    /\ SleepInterrupted
    /\ obs.sleepInt >= 1
    /\ pc = "done"

\* C18: for a NotifiedPulser or DelayedNotifiedPulser the ticks begun never
\* outnumber the wakeup() calls made by producers (the wakeup inside kill()
\* yields no tick), and every tick follows a return of wait() and a read of
\* the flag as false.
C18_TicksBoundedByWakeups ==
    kind \in NotifiedKinds =>
        /\ ticks <= obs.wakeups
        /\ obs.passes <= obs.rets
        /\ pc = "call_tick" => obs.passes = ticks + 1
        /\ pc # "call_tick" => obs.passes = ticks

C18_Witness ==
    /\ kind \in NotifiedKinds
    /\ KillReturned
    /\ ticks >= 1
    /\ ticks = obs.wakeups
    /\ obs.rets = ticks + 1
    /\ pc = "done"


\* C19: the timer thread never reaches delete this before the caller's
\* start() has detached the thread handle: a deleted timer is detached.
C19_DetachBeforeDelete ==
    (kind = "Timer" /\ ~alive) => m_thread = "detached"


\* the elements reached from those of S in at most n steps along merged
\* pairs, taken in either direction
RECURSIVE Reach(_, _)
Reach(S, n) ==
    IF n = 0 THEN S
    ELSE Reach(S \cup {e \in Elems : \E s \in S : <<s, e>> \in merged \/ <<e, s>> \in merged},
               n - 1)

Related(x, y) == y \in Reach({x}, NumElems)

\* the element reached from x by following at most n father links
RECURSIVE Walk(_, _, _)
Walk(m, x, n) ==
    IF x \notin DOMAIN m \/ n = 0 THEN x ELSE Walk(m, m[x], n - 1)

Acyclic == \A x \in DOMAIN m_mapping : Walk(m_mapping, x, NumElems) \notin DOMAIN m_mapping

\* C20: after any sequence of merge() and find() calls the father mapping is
\* acyclic, find(x) = find(y) exactly when x and y are related by the
\* reflexive, symmetric, transitive closure of the merged pairs, and the
\* path compression of a find() changes no root.
C20_UnionFind ==
    /\ Acyclic
    /\ \A x, y \in Elems :
          (find(m_mapping, x).root = find(m_mapping, y).root) <=> Related(x, y)
    /\ \A a, x \in Elems :
          find(find(m_mapping, a).map, x).root = find(m_mapping, x).root

C20_Witness ==
    /\ merged = {<<1, 2>>, <<3, 1>>}
    /\ m_mapping = (1 :> 3) @@ (2 :> 3)

====
